---- MODULE Spec2Model ----
(***************************************************************************)
(* Model of app.py: the donation store (one SQLite file holding the        *)
(* donations table), the global db_lock, init_database(), the three Flask  *)
(* handlers and the __main__ startup block.                                *)
(*                                                                         *)
(* Amounts are fixed-point integers in units of 0.0001 BNB; timestamps and *)
(* the clock are integers in seconds.                                      *)
(***************************************************************************)
EXTENDS Integers, Sequences, FiniteSets, TLC

(* ------------------------------ bounds -------------------------------- *)

\* Largest number of rows a store file holds when the process starts.
MaxInitRows == 4
\* Storage faults (database locked, disk I/O error) the environment injects.
MaxFaults == 1
\* How often the wall clock advances by TickSeconds during a run.
MaxTicks == 1
\* Rows another process sharing the store file may insert.
MaxExternal == 1
\* The wall clock (seconds) when the process starts.
Now0 == 200000
\* One advance of the wall clock, in seconds (half an hour).
TickSeconds == 1800

(* ------------------------- program constants -------------------------- *)

BSC_ADDRESS == "0xd5d16f8A035fc52F4a93890D52Ca58004CF6E9B0"
BSC_CHAIN_ID == 56
\* LIMIT 3 of the recent-donations query.
RecentLimit == 3
\* timedelta.seconds thresholds of the age rendering, and the length of a day.
SecondsPerHour == 3600
SecondsPerMinute == 60
SecondsPerDay == 86400
\* Amounts are counted in 1/AmountScale BNB (the 4 decimals of ":.4f" and round(.., 4)).
AmountScale == 10000

Main == "main"
Workers == {"w1", "w2"}
Threads == {Main} \cup Workers
Unlocked == "unlocked"

VARIABLES
    file,             \* the store file: "absent", "corrupt" (not a database) or "db"
    hasTable,         \* whether the database holds the donations table
    rows,             \* the committed rows of the donations table
    db_lock,          \* holder of the global Lock, or Unlocked
    pc,               \* position of each thread
    txn,              \* per thread: rows inserted by its connection, not yet committed
    total_bnb,        \* get_stats local
    total_donations,  \* get_stats local
    recent_raw,       \* get_stats local recent_donations_raw
    resp,             \* the answer each thread gave to its last request
    exc,              \* the exception raised in a thread's current call, or "none"
    excAt,            \* the position at which it was raised
    now,              \* the wall clock read by datetime.now()
    faults,           \* injected storage faults so far
    external          \* rows inserted so far by another process

vars == <<file, hasTable, rows, db_lock, pc, txn, total_bnb, total_donations,
          recent_raw, resp, exc, excAt, now, faults, external>>

store == <<file, hasTable, rows>>
locals == <<total_bnb, total_donations, recent_raw>>

(* ------------------------------- rows --------------------------------- *)

\* A row of the donations table.  tk tells what the timestamp column holds:
\* "ok" a decodable date-time, "bad" a text the timestamp converter rejects,
\* "null" SQL NULL (the column is nullable).
Row(i, a, h, ts, k) ==
    [id |-> i, crypto_type |-> "BNB", amount |-> a, transaction_hash |-> h,
     timestamp |-> ts, tk |-> k]

\* sample_donations of init_database, built from the clock value c.
sample_donations(c) ==
    << [amount |-> 500,  transaction_hash |-> "sample_tx_1_bnb", timestamp |-> c - SecondsPerHour],
       [amount |-> 200,  transaction_hash |-> "sample_tx_2_bnb", timestamp |-> c - 3 * SecondsPerHour],
       [amount |-> 1000, transaction_hash |-> "sample_tx_3_bnb", timestamp |-> c - SecondsPerDay] >>

Max(S) == CHOOSE x \in S : \A y \in S : y <= x
Min2(a, b) == IF a <= b THEN a ELSE b

RECURSIVE SumAmounts(_)
SumAmounts(S) ==
    IF S = {} THEN 0
    ELSE LET r == CHOOSE x \in S : TRUE IN r.amount + SumAmounts(S \ {r})

\* What the connection of thread t sees: committed rows and its own inserts.
View(t) == rows \cup txn[t]

\* AUTOINCREMENT: the next id is one more than the largest id in use.
NextId(S) == IF S = {} THEN 1 ELSE Max({r.id : r \in S}) + 1

\* transaction_hash TEXT UNIQUE: whether inserting hash h into S is rejected.
UniqueViolationNoCheck(S, h) == FALSE
UniqueViolation(S, h) == \E r \in S : r.transaction_hash = h

(* --------------------------- storage faults --------------------------- *)

\* The error a statement on the donations table raises by the file's state.
QueryError ==
    IF file = "corrupt" THEN "DatabaseError"
    ELSE IF ~hasTable THEN "OperationalError"
    ELSE "none"

\* The error a statement that needs no table raises by the file's state.
FileError == IF file = "corrupt" THEN "DatabaseError" ELSE "none"

\* Whether the environment may make the next storage operation fail.
Injections == {FALSE} \cup (IF faults < MaxFaults THEN {TRUE} ELSE {})
Outcome(inj, structural) == IF inj THEN "OperationalError" ELSE structural
Count(inj) == IF inj THEN faults + 1 ELSE faults

\* sqlite3.connect creates the file when it is absent (an empty database).
Connected(f) == IF f = "absent" THEN "db" ELSE f

(* ------------------------------ db_lock ------------------------------- *)

\* "with db_lock": entering blocks until the lock is free.
CanAcquireAlways(t) == TRUE
CanAcquire(t) == db_lock = Unlocked

\* Leaving the with block normally.
Released(t) == IF db_lock = t THEN Unlocked ELSE db_lock

\* Leaving the with block because an exception passes through it.
ReleasedOnErrorLeak(t) == db_lock
ReleasedOnError(t) == IF db_lock = t THEN Unlocked ELSE db_lock

(* --------------------------- init_database ---------------------------- *)

\* Where a thread continues after init_database returns / raises.
AfterInit(t) == IF t = Main THEN "serving" ELSE "idle"
AfterInitRaise(t) == IF t = Main THEN "crashed" ELSE "idle"

\* An exception e leaves init_database from position p: the connection's
\* context manager rolls back, the lock's releases, the caller gets e.
InitRaise(t, p, e) ==
    /\ txn' = [txn EXCEPT ![t] = {}]
    /\ db_lock' = ReleasedOnError(t)
    /\ exc' = [exc EXCEPT ![t] = e]
    /\ excAt' = [excAt EXCEPT ![t] = p]
    /\ pc' = [pc EXCEPT ![t] = AfterInitRaise(t)]

InitAcquire(t) ==
    /\ pc[t] = "i_lock"
    /\ CanAcquire(t)
    /\ db_lock' = t
    /\ pc' = [pc EXCEPT ![t] = "i_connect"]
    /\ UNCHANGED <<store, txn, locals, resp, exc, excAt, now, faults, external>>

InitConnect(t) ==
    /\ pc[t] = "i_connect"
    /\ \E inj \in Injections :
         /\ faults' = Count(inj)
         /\ IF inj
            THEN /\ InitRaise(t, "i_connect", "OperationalError")
                 /\ UNCHANGED store
            ELSE /\ file' = Connected(file)
                 /\ pc' = [pc EXCEPT ![t] = "i_create"]
                 /\ UNCHANGED <<hasTable, rows, db_lock, txn, exc, excAt>>
    /\ UNCHANGED <<locals, resp, now, external>>

\* CREATE TABLE IF NOT EXISTS donations: committed at once (no transaction is open).
InitCreateTable(t) ==
    /\ pc[t] = "i_create"
    /\ \E inj \in Injections :
         LET e == Outcome(inj, FileError) IN
         /\ faults' = Count(inj)
         /\ IF e # "none"
            THEN /\ InitRaise(t, "i_create", e)
                 /\ UNCHANGED store
            ELSE /\ hasTable' = TRUE
                 /\ rows' = IF hasTable THEN rows ELSE {}
                 /\ pc' = [pc EXCEPT ![t] = "i_count"]
                 /\ UNCHANGED <<file, db_lock, txn, exc, excAt>>
    /\ UNCHANGED <<locals, resp, now, external>>

\* The seeding test: whether SELECT COUNT(*) returning n makes init_database seed.
SeedsAlways(n) == TRUE
Seeds(n) == n = 0

InitCount(t) ==
    /\ pc[t] = "i_count"
    /\ \E inj \in Injections :
         LET e == Outcome(inj, QueryError) IN
         /\ faults' = Count(inj)
         /\ IF e # "none"
            THEN InitRaise(t, "i_count", e)
            ELSE /\ pc' = [pc EXCEPT ![t] =
                              IF Seeds(Cardinality(View(t))) THEN "i_insert" ELSE "i_return"]
                 /\ UNCHANGED <<db_lock, txn, exc, excAt>>
    /\ UNCHANGED <<store, locals, resp, now, external>>

\* One turn of "for donation in sample_donations: cursor.execute(INSERT ...)";
\* the turn's index is the number of rows the loop has inserted so far.
InitInsert(t) ==
    /\ pc[t] = "i_insert"
    /\ LET k == Cardinality(txn[t]) + 1
           d == sample_donations(now)[k]
       IN  \E inj \in Injections :
             LET e == Outcome(inj, IF QueryError # "none" THEN QueryError
                                   ELSE IF UniqueViolation(View(t), d.transaction_hash)
                                        THEN "IntegrityError" ELSE "none")
             IN  /\ faults' = Count(inj)
                 /\ IF e # "none"
                    THEN InitRaise(t, "i_insert", e)
                    ELSE /\ txn' = [txn EXCEPT ![t] = @ \cup
                                      {Row(NextId(View(t)), d.amount, d.transaction_hash,
                                           d.timestamp, "ok")}]
                         /\ pc' = [pc EXCEPT ![t] =
                                      IF k = Len(sample_donations(now)) THEN "i_commit" ELSE "i_insert"]
                         /\ UNCHANGED <<db_lock, exc, excAt>>
    /\ UNCHANGED <<store, locals, resp, now, external>>

\* conn.commit(): the connection's inserts become committed rows.
InitCommit(t) ==
    /\ pc[t] = "i_commit"
    /\ \E inj \in Injections :
         /\ faults' = Count(inj)
         /\ IF inj
            THEN /\ InitRaise(t, "i_commit", "OperationalError")
                 /\ UNCHANGED store
            ELSE /\ rows' = rows \cup txn[t]
                 /\ txn' = [txn EXCEPT ![t] = {}]
                 /\ pc' = [pc EXCEPT ![t] = "i_return"]
                 /\ UNCHANGED <<file, hasTable, db_lock, exc, excAt>>
    /\ UNCHANGED <<locals, resp, now, external>>

\* Both with blocks are left normally and init_database returns.
InitReturn(t) ==
    /\ pc[t] = "i_return"
    /\ db_lock' = Released(t)
    /\ pc' = [pc EXCEPT ![t] = AfterInit(t)]
    /\ UNCHANGED <<store, txn, locals, resp, exc, excAt, now, faults, external>>

init_database(t) ==
    \/ InitAcquire(t)
    \/ InitConnect(t)
    \/ InitCreateTable(t)
    \/ InitCount(t)
    \/ InitInsert(t)
    \/ InitCommit(t)
    \/ InitReturn(t)

(* ------------------------ __main__ startup block ----------------------- *)

\* "if not os.path.exists(DATABASE_PATH): init_database() else: <probe>"
StartupExists ==
    /\ pc[Main] = "start"
    /\ pc' = [pc EXCEPT ![Main] = IF file = "absent" THEN "i_lock" ELSE "p_connect"]
    /\ UNCHANGED <<store, db_lock, txn, locals, resp, exc, excAt, now, faults, external>>

\* The exceptions the probe's "except sqlite3.OperationalError" clause catches.
ProbeCatches(e) == e = "OperationalError"

\* What the probe does with outcome e of one of its statements, raised at p.
ProbeOutcome(p, e, next) ==
    IF e = "none"
    THEN /\ pc' = [pc EXCEPT ![Main] = next]
         /\ UNCHANGED <<exc, excAt>>
    ELSE IF ProbeCatches(e)
    THEN /\ pc' = [pc EXCEPT ![Main] = "p_remove"]
         /\ UNCHANGED <<exc, excAt>>
    ELSE /\ pc' = [pc EXCEPT ![Main] = "crashed"]
         /\ exc' = [exc EXCEPT ![Main] = e]
         /\ excAt' = [excAt EXCEPT ![Main] = p]

\* conn = get_db_connection(), without db_lock.
ProbeConnect ==
    /\ pc[Main] = "p_connect"
    /\ \E inj \in Injections :
         /\ faults' = Count(inj)
         /\ ProbeOutcome("p_connect", Outcome(inj, "none"), "p_select")
    /\ UNCHANGED <<store, db_lock, txn, locals, resp, now, external>>

\* conn.execute("SELECT 1 FROM donations LIMIT 1"); conn.close(), without db_lock.
ProbeSelect ==
    /\ pc[Main] = "p_select"
    /\ \E inj \in Injections :
         /\ faults' = Count(inj)
         /\ ProbeOutcome("p_select", Outcome(inj, QueryError), "serving")
    /\ UNCHANGED <<store, db_lock, txn, locals, resp, now, external>>

\* os.remove(DATABASE_PATH); then init_database() is called.
ProbeRemove ==
    /\ pc[Main] = "p_remove"
    /\ file' = "absent"
    /\ hasTable' = FALSE
    /\ rows' = {}
    /\ pc' = [pc EXCEPT ![Main] = "i_lock"]
    /\ UNCHANGED <<db_lock, txn, locals, resp, exc, excAt, now, faults, external>>

Startup ==
    \/ StartupExists
    \/ ProbeConnect
    \/ ProbeSelect
    \/ ProbeRemove

(* ------------------------------ handlers ------------------------------ *)

NoResp == [kind |-> "none", status |-> 0, body |-> <<>>]

\* app.run serves requests once the startup block is through.
CanServe(t) == pc[Main] = "serving" /\ pc[t] = "idle"

Answer(t, r) ==
    /\ resp' = [resp EXCEPT ![t] = r]
    /\ pc' = [pc EXCEPT ![t] = "idle"]

\* A call starts with no exception raised and fresh locals.
FreshCall(t) ==
    /\ exc' = [exc EXCEPT ![t] = "none"]
    /\ excAt' = [excAt EXCEPT ![t] = "none"]
    /\ total_bnb' = [total_bnb EXCEPT ![t] = 0]
    /\ total_donations' = [total_donations EXCEPT ![t] = 0]
    /\ recent_raw' = [recent_raw EXCEPT ![t] = <<>>]

\* GET /
index(t) ==
    /\ CanServe(t)
    /\ FreshCall(t)
    /\ Answer(t, [kind |-> "index", status |-> 200, body |-> <<"index.html">>])
    /\ UNCHANGED <<store, db_lock, txn, now, faults, external>>

\* generate_qr_code: the base64 PNG of the QR code of data, kept as the pair
\* of the format and the text the code encodes.
generate_qr_code(data) == <<"data:image/png;base64", data>>

\* GET /api/crypto-info; qr_ok tells whether generate_qr_code returned.
crypto_info(t) ==
    /\ CanServe(t)
    /\ \E qr_ok \in BOOLEAN :
         LET payment_link == "ethereum:" \o BSC_ADDRESS \o "@" \o ToString(BSC_CHAIN_ID) IN
         Answer(t, IF qr_ok
                   THEN [kind |-> "crypto_info", status |-> 200,
                         body |-> [address |-> BSC_ADDRESS, network |-> "BNB Smart Chain",
                                   token |-> "BNB", qr_code |-> generate_qr_code(payment_link),
                                   payment_link |-> payment_link]]
                   ELSE [kind |-> "crypto_info", status |-> 500,
                         body |-> [error |-> "Failed to generate crypto info"]])
    /\ FreshCall(t)
    /\ UNCHANGED <<store, db_lock, txn, now, faults, external>>

(* ------------------------------ get_stats ----------------------------- *)

\* ORDER BY timestamp DESC: a sorts no later than b.  NULL is the smallest value.
SortsBefore(a, b) == b.tk = "null" \/ (a.tk # "null" /\ a.timestamp >= b.timestamp)

\* The results ORDER BY timestamp DESC LIMIT 3 may return over the rows S:
\* the order among equal timestamps is the engine's choice.
RecentUnordered(S) ==
    { s \in [1..Min2(RecentLimit, Cardinality(S)) -> S] :
        \A i, j \in DOMAIN s : i < j => s[i] # s[j] }
RecentResults(S) ==
    { s \in [1..Min2(RecentLimit, Cardinality(S)) -> S] :
        /\ \A i, j \in DOMAIN s : i < j => s[i] # s[j] /\ SortsBefore(s[i], s[j])
        /\ \A r \in S : (\A i \in DOMAIN s : s[i] # r) =>
                           \A i \in DOMAIN s : SortsBefore(s[i], r) }

\* timedelta: days and seconds of the normalised difference d (in seconds).
TimedeltaDays(d) == d \div SecondsPerDay
TimedeltaSeconds(d) == d % SecondsPerDay

\* The relative age get_stats renders for time_diff = d seconds.
time_ago(d) ==
    IF TimedeltaDays(d) > 0 THEN ToString(TimedeltaDays(d)) \o "d ago"
    ELSE IF TimedeltaSeconds(d) >= SecondsPerHour
         THEN ToString(TimedeltaSeconds(d) \div SecondsPerHour) \o "h ago"
    ELSE IF TimedeltaSeconds(d) >= SecondsPerMinute
         THEN ToString(TimedeltaSeconds(d) \div SecondsPerMinute) \o "m ago"
    ELSE "just now"

\* f"{n:04d}" for the fractional digits.
Pad4(n) ==
    (IF n < 10 THEN "000" ELSE IF n < 100 THEN "00" ELSE IF n < 1000 THEN "0" ELSE "")
    \o ToString(n)

\* f"{amount:.4f} BNB" of an amount in 1/AmountScale BNB.
FormatAmount(a) == ToString(a \div AmountScale) \o "." \o Pad4(a % AmountScale) \o " BNB"

\* round(total_bnb, 4): amounts are whole multiples of 0.0001 BNB already.
Round4(a) == (a \div 1) * 1

\* The document of the except clause of get_stats.
ErrorDocPartial(t) ==
    [kind |-> "stats", status |-> 500,
     body |-> [total_donations |-> total_donations[t], total_amount_bnb |-> total_bnb[t],
               recent_donations |-> <<>>]]
ErrorDoc(t) ==
    [kind |-> "stats", status |-> 500,
     body |-> [total_donations |-> 0, total_amount_bnb |-> 0, recent_donations |-> <<>>]]

\* A GET /api/stats request arrives.
StatsRequest(t) ==
    /\ CanServe(t)
    /\ pc' = [pc EXCEPT ![t] = "s_lock"]
    /\ resp' = [resp EXCEPT ![t] = NoResp]
    /\ FreshCall(t)
    /\ UNCHANGED <<store, db_lock, txn, now, faults, external>>

\* An exception e raised at p inside "with db_lock" reaches the except clause.
StatsRaise(t, p, e) ==
    /\ db_lock' = ReleasedOnError(t)
    /\ exc' = [exc EXCEPT ![t] = e]
    /\ excAt' = [excAt EXCEPT ![t] = p]
    /\ pc' = [pc EXCEPT ![t] = "s_except"]

StatsAcquire(t) ==
    /\ pc[t] = "s_lock"
    /\ CanAcquire(t)
    /\ db_lock' = t
    /\ pc' = [pc EXCEPT ![t] = "s_connect"]
    /\ UNCHANGED <<store, txn, locals, resp, exc, excAt, now, faults, external>>

StatsConnect(t) ==
    /\ pc[t] = "s_connect"
    /\ \E inj \in Injections :
         /\ faults' = Count(inj)
         /\ IF inj
            THEN /\ StatsRaise(t, "s_connect", "OperationalError")
                 /\ UNCHANGED store
            ELSE /\ file' = Connected(file)
                 /\ pc' = [pc EXCEPT ![t] = "s_sum"]
                 /\ UNCHANGED <<hasTable, rows, db_lock, exc, excAt>>
    /\ UNCHANGED <<txn, locals, resp, now, external>>

\* SELECT COALESCE(SUM(amount), 0) FROM donations
StatsSum(t) ==
    /\ pc[t] = "s_sum"
    /\ \E inj \in Injections :
         LET e == Outcome(inj, QueryError) IN
         /\ faults' = Count(inj)
         /\ IF e # "none"
            THEN /\ StatsRaise(t, "s_sum", e)
                 /\ UNCHANGED total_bnb
            ELSE /\ total_bnb' = [total_bnb EXCEPT ![t] = SumAmounts(View(t))]
                 /\ pc' = [pc EXCEPT ![t] = "s_count"]
                 /\ UNCHANGED <<db_lock, exc, excAt>>
    /\ UNCHANGED <<store, txn, total_donations, recent_raw, resp, now, external>>

\* SELECT COUNT(*) FROM donations
StatsCount(t) ==
    /\ pc[t] = "s_count"
    /\ \E inj \in Injections :
         LET e == Outcome(inj, QueryError) IN
         /\ faults' = Count(inj)
         /\ IF e # "none"
            THEN /\ StatsRaise(t, "s_count", e)
                 /\ UNCHANGED total_donations
            ELSE /\ total_donations' = [total_donations EXCEPT ![t] = Cardinality(View(t))]
                 /\ pc' = [pc EXCEPT ![t] = "s_recent"]
                 /\ UNCHANGED <<db_lock, exc, excAt>>
    /\ UNCHANGED <<store, txn, total_bnb, recent_raw, resp, now, external>>

\* SELECT amount, timestamp ... ORDER BY timestamp DESC LIMIT 3, fetchall():
\* the timestamp converter runs on every fetched row.
StatsRecent(t) ==
    /\ pc[t] = "s_recent"
    /\ \E inj \in Injections :
         /\ faults' = Count(inj)
         /\ IF Outcome(inj, QueryError) # "none"
            THEN /\ StatsRaise(t, "s_recent", Outcome(inj, QueryError))
                 /\ UNCHANGED recent_raw
            ELSE \E s \in RecentResults(View(t)) :
                   IF \E i \in DOMAIN s : s[i].tk = "bad"
                   THEN /\ StatsRaise(t, "s_recent", "ValueError")
                        /\ UNCHANGED recent_raw
                   ELSE /\ recent_raw' = [recent_raw EXCEPT ![t] = s]
                        /\ pc' = [pc EXCEPT ![t] = "s_close"]
                        /\ UNCHANGED <<db_lock, exc, excAt>>
    /\ UNCHANGED <<store, txn, total_bnb, total_donations, resp, now, external>>

\* conn.close() and the end of "with db_lock".
StatsClose(t) ==
    /\ pc[t] = "s_close"
    /\ db_lock' = Released(t)
    /\ pc' = [pc EXCEPT ![t] = "s_render"]
    /\ UNCHANGED <<store, txn, locals, resp, exc, excAt, now, faults, external>>

\* The rendering loop and the 200 document; datetime.now() - None raises TypeError.
StatsRender(t) ==
    /\ pc[t] = "s_render"
    /\ IF \E i \in DOMAIN recent_raw[t] : recent_raw[t][i].tk = "null"
       THEN /\ exc' = [exc EXCEPT ![t] = "TypeError"]
            /\ excAt' = [excAt EXCEPT ![t] = "s_render"]
            /\ pc' = [pc EXCEPT ![t] = "s_except"]
            /\ UNCHANGED resp
       ELSE /\ Answer(t, [kind |-> "stats", status |-> 200,
                          body |-> [total_donations |-> total_donations[t],
                                    total_amount_bnb |-> Round4(total_bnb[t]),
                                    recent_donations |->
                                      [i \in DOMAIN recent_raw[t] |->
                                         [amount |-> FormatAmount(recent_raw[t][i].amount),
                                          time |-> time_ago(now - recent_raw[t][i].timestamp)]]]])
            /\ UNCHANGED <<exc, excAt>>
    /\ UNCHANGED <<store, db_lock, txn, locals, now, faults, external>>

\* except Exception: the zeroed document with status 500.
StatsExcept(t) ==
    /\ pc[t] = "s_except"
    /\ Answer(t, ErrorDoc(t))
    /\ UNCHANGED <<store, db_lock, txn, locals, exc, excAt, now, faults, external>>

\* The steps of get_stats after the lock is taken.
StatsStep(t) ==
    \/ StatsConnect(t)
    \/ StatsSum(t)
    \/ StatsCount(t)
    \/ StatsRecent(t)
    \/ StatsClose(t)
    \/ StatsRender(t)
    \/ StatsExcept(t)

get_stats(t) ==
    \/ StatsRequest(t)
    \/ StatsAcquire(t)
    \/ StatsStep(t)

Serve(t) ==
    \/ index(t)
    \/ crypto_info(t)
    \/ get_stats(t)

(* ----------------------------- environment ---------------------------- *)

\* The wall clock advances; the three datetime.now() of the sample list and
\* its inserts fall within one clock reading.
Tick ==
    /\ now < Now0 + MaxTicks * TickSeconds
    /\ \A t \in Threads : pc[t] # "i_insert"
    /\ now' = now + TickSeconds
    /\ UNCHANGED <<store, db_lock, pc, txn, locals, resp, exc, excAt, faults, external>>

\* A thread of the process calls init_database() directly.
CallInit(t) ==
    /\ CanServe(t)
    /\ pc' = [pc EXCEPT ![t] = "i_lock"]
    /\ resp' = [resp EXCEPT ![t] = NoResp]
    /\ FreshCall(t)
    /\ UNCHANGED <<store, db_lock, txn, now, faults, external>>

\* Another process sharing the store file inserts a row.  SQLite lets it
\* commit only while no connection of this process has a write transaction
\* open, and the UNIQUE constraint binds it too.
ExternalHashes == {"sample_tx_1_bnb", "sample_tx_2_bnb", "ext_tx"}
ExternalInsert ==
    /\ external < MaxExternal
    /\ file = "db" /\ hasTable
    /\ \A t \in Threads : txn[t] = {}
    /\ \E h \in ExternalHashes :
         /\ ~UniqueViolation(rows, h)
         /\ rows' = rows \cup {Row(NextId(rows), 300, h, now, "ok")}
    /\ external' = external + 1
    /\ UNCHANGED <<file, hasTable, db_lock, pc, txn, locals, resp, exc, excAt, now, faults>>

(* --------------------------- initial states --------------------------- *)

\* What the timestamp column of a row found at startup may hold.
RowProtos ==
    << [timestamp |-> Now0 - 90000, tk |-> "ok"],
       [timestamp |-> Now0 - 30,    tk |-> "ok"],
       [timestamp |-> Now0 - 30,    tk |-> "bad"],
       [timestamp |-> Now0 - 90000, tk |-> "null"] >>

\* The tables a store file may hold at startup: ids 1..n, distinct hashes,
\* each row's timestamp one of RowProtos (rows listed by kind of timestamp;
\* several rows may share one).
InitialTables ==
    UNION { { { Row(i, 100 * i, "tx_" \o ToString(i),
                    RowProtos[f[i]].timestamp, RowProtos[f[i]].tk) : i \in 1..n }
              : f \in { g \in [1..n -> DOMAIN RowProtos] :
                          \A i, j \in 1..n : i < j => g[i] <= g[j] } }
            : n \in 0..MaxInitRows }

InitControl(mainpc) ==
    /\ db_lock = Unlocked
    /\ pc = [t \in Threads |-> IF t = Main THEN mainpc ELSE "idle"]
    /\ txn = [t \in Threads |-> {}]
    /\ total_bnb = [t \in Threads |-> 0]
    /\ total_donations = [t \in Threads |-> 0]
    /\ recent_raw = [t \in Threads |-> <<>>]
    /\ resp = [t \in Threads |-> NoResp]
    /\ exc = [t \in Threads |-> "none"]
    /\ excAt = [t \in Threads |-> "none"]
    /\ faults = 0
    /\ external = 0

\* "python app.py": the store file is absent, not a database, or a database
\* with or without the donations table.
Init ==
    /\ InitControl("start")
    /\ now = Now0
    /\ \/ file \in {"absent", "corrupt"} /\ hasTable = FALSE /\ rows = {}
       \/ file = "db" /\ hasTable = FALSE /\ rows = {}
       \/ file = "db" /\ hasTable = TRUE /\ rows \in InitialTables

\* The startup block, then app.run serving requests; the run is short
\* enough to fall within one reading of the clock.
Next ==
    \/ Startup
    \/ init_database(Main)
    \/ \E t \in Workers : Serve(t)

Spec == Init /\ [][Next]_vars

\* The module imported by a server or a test (the startup block does not
\* run); threads call init_database() and the handlers on a store that is
\* absent, has no table, or has an empty table.
InitLib ==
    /\ InitControl("serving")
    /\ now = Now0
    /\ \/ file = "absent" /\ hasTable = FALSE /\ rows = {}
       \/ file = "db" /\ hasTable \in BOOLEAN /\ rows = {}

NextLib ==
    \/ \E t \in Workers : Serve(t)
    \/ \E t \in Workers : CallInit(t)
    \/ \E t \in Workers : init_database(t)
    \/ Tick

SpecLib == InitLib /\ [][NextLib]_vars

\* The steps of init_database after the lock is taken.
InitBody(t) ==
    \/ InitConnect(t)
    \/ InitCreateTable(t)
    \/ InitCount(t)
    \/ InitInsert(t)
    \/ InitCommit(t)
    \/ InitReturn(t)

\* Scheduling: a thread that can take a step of get_stats or init_database
\* eventually takes it, and a thread that can take the lock again and again
\* eventually gets it.
Fairness ==
    \A t \in Workers :
        /\ WF_vars(StatsStep(t))
        /\ WF_vars(InitBody(t))
        /\ SF_vars(StatsAcquire(t))

FairLib == SpecLib /\ Fairness

\* The same, with another process writing the store file.
NextShared ==
    \/ NextLib
    \/ ExternalInsert

SpecShared == InitLib /\ [][NextShared]_vars

\* get_stats applied to one stored record, for the pairs (now, timestamp) of TimeGrid.
TimeGrid == {0, 30, 59, 60, 61, 3599, 3600, 3601, 5400, 86399, 86400, 86401, 90000, 172800}

InitAge ==
    /\ InitControl("serving")
    /\ now \in TimeGrid
    /\ file = "db" /\ hasTable = TRUE
    /\ \E ts \in TimeGrid : rows = {Row(1, 100, "tx_1", ts, "ok")}

NextAge == \E t \in Workers : Serve(t)

SpecAge == InitAge /\ [][NextAge]_vars

(* ----------------------------- properties ----------------------------- *)

StatsAnswered(t) == pc[t] = "idle" /\ resp[t].kind = "stats"
ZeroBody == [total_donations |-> 0, total_amount_bnb |-> 0, recent_donations |-> <<>>]

\* C1: in a process whose store starts absent, without table or empty, every
\* init_database() call that returns leaves exactly 3 records in an existing
\* table; once 3 records are stored every later step (further calls
\* included) leaves them as they are; the table never holds a count other
\* than 0 or 3; and no call ever fails on a duplicate hash.
C1_InitSeedsOnce ==
    /\ [](Cardinality(rows) \in {0, 3})
    /\ [](\A t \in Workers : exc[t] # "IntegrityError")
    /\ [][ /\ \A t \in Workers :
                (pc[t] = "i_return" /\ pc'[t] = "idle") =>
                    (file' = "db" /\ hasTable' /\ Cardinality(rows') = 3)
           /\ (Cardinality(rows) = 3 => rows' = rows) ]_vars

\* A call of init_database by w1 on a store that held the 3 seeded records
\* before the call took the lock (w2's finished stats request counted them),
\* about to return.
C1_Witness ==
    /\ pc["w1"] = "i_return"
    /\ Cardinality(rows) = 3
    /\ StatsAnswered("w2") /\ resp["w2"].status = 200
    /\ resp["w2"].body.total_donations = 3

\* Whether thread t has a connection to the store open.
InStorage(t) ==
    pc[t] \in {"p_select", "p_remove", "i_create", "i_count", "i_insert", "i_commit",
               "i_return", "s_sum", "s_count", "s_recent", "s_close"}

\* C2 as stated: every thread inside a storage operation holds db_lock.
C2_AllStorageUnderLock == \A t \in Threads : InStorage(t) => db_lock = t

\* C2 as amended: init_database and get_stats access the store while holding
\* db_lock; the startup probe runs without it, before any request is served;
\* at most one thread is inside a storage operation.
C2_StorageSerialized ==
    /\ \A t \in Threads :
          (InStorage(t) /\ pc[t] \notin {"p_select", "p_remove"}) => db_lock = t
    /\ \A t \in Threads :
          pc[t] \in {"p_select", "p_remove"} =>
              (t = Main /\ \A w \in Workers : pc[w] = "idle" /\ resp[w] = NoResp)
    /\ \A t, u \in Threads : (InStorage(t) /\ InStorage(u)) => t = u

\* w1 is inside the queries of get_stats while w2 waits for the lock.
C2_Witness == pc["w1"] = "s_count" /\ pc["w2"] = "s_lock" /\ db_lock = "w1"

\* C3: a GET /api/stats request in which an exception was raised answers
\* with status 500 and the zeroed document, and no worker thread is ever
\* left with an unhandled exception.
C3_FailureGivesZeroed500 ==
    \A t \in Workers :
        /\ pc[t] # "crashed"
        /\ (pc[t] = "idle" /\ exc[t] # "none") =>
               (resp[t].kind = "stats" /\ resp[t].status = 500 /\ resp[t].body = ZeroBody)
        /\ (StatsAnswered(t) /\ resp[t].status = 200) => exc[t] = "none"

\* One request failed decoding a timestamp, another in the middle of the
\* queries; both were answered.
C3_Witness ==
    /\ pc["w1"] = "idle" /\ exc["w1"] = "ValueError" /\ excAt["w1"] = "s_recent"
    /\ pc["w2"] = "idle" /\ exc["w2"] = "OperationalError" /\ excAt["w2"] = "s_count"
    /\ resp["w1"].status = 500 /\ resp["w2"].status = 500

\* The parts of C4 that do not depend on how equal timestamps are listed:
\* the list's length, and its entries being records none of the others beats.
C4_LengthAndTop(t) ==
    /\ resp[t].body.total_donations = Cardinality(rows)
    /\ Len(resp[t].body.recent_donations) = Min2(3, resp[t].body.total_donations)
    /\ Len(recent_raw[t]) = Len(resp[t].body.recent_donations)
    /\ \A i \in DOMAIN recent_raw[t] :
          /\ recent_raw[t][i] \in rows
          /\ \A j \in DOMAIN recent_raw[t] : i # j => recent_raw[t][i] # recent_raw[t][j]
          /\ \A r \in rows :
                (\A j \in DOMAIN recent_raw[t] : recent_raw[t][j] # r) =>
                    (r.tk = "null" \/ r.timestamp <= recent_raw[t][i].timestamp)

\* C4 as stated: the list is in strictly descending timestamp order.
C4_StrictlyDescending ==
    \A t \in Workers :
        (StatsAnswered(t) /\ resp[t].status = 200) =>
            /\ C4_LengthAndTop(t)
            /\ \A i, j \in DOMAIN recent_raw[t] :
                  i < j => recent_raw[t][i].timestamp > recent_raw[t][j].timestamp

\* C4 as amended: the list is in descending timestamp order, records that
\* share a timestamp in either order.
C4_Descending ==
    \A t \in Workers :
        (StatsAnswered(t) /\ resp[t].status = 200) =>
            /\ C4_LengthAndTop(t)
            /\ \A i, j \in DOMAIN recent_raw[t] :
                  i < j => recent_raw[t][i].timestamp >= recent_raw[t][j].timestamp

\* A 200 answer over a store of 4 records whose list holds two records with
\* one timestamp and a third with an earlier one.
C4_Witness ==
    /\ StatsAnswered("w1") /\ resp["w1"].status = 200
    /\ resp["w1"].body.total_donations = 4
    /\ Len(recent_raw["w1"]) = 3
    /\ recent_raw["w1"][1].timestamp = recent_raw["w1"][2].timestamp
    /\ recent_raw["w1"][2].timestamp > recent_raw["w1"][3].timestamp

\* The relative age C5 states for an elapsed time of d seconds.
ClaimedAge(d) ==
    IF d >= 86400 THEN ToString(d \div 86400) \o "d ago"
    ELSE IF d >= 3600 THEN ToString(d \div 3600) \o "h ago"
    ELSE IF d >= 60 THEN ToString(d \div 60) \o "m ago"
    ELSE "just now"

\* C5: every entry of a 200 answer carries the age C5 states for
\* (now, the record's timestamp).
C5_AgeBuckets ==
    \A t \in Workers :
        (StatsAnswered(t) /\ resp[t].status = 200) =>
            \A i \in DOMAIN recent_raw[t] :
                resp[t].body.recent_donations[i].time
                    = ClaimedAge(now - recent_raw[t][i].timestamp)

\* C6: the startup block never ends in an uncaught exception, and when it is
\* through the store is a database holding the donations table.
C6_StartupAlwaysRecovers ==
    /\ pc[Main] # "crashed"
    /\ pc[Main] = "serving" => (file = "db" /\ hasTable)

\* C7: no two records of the table, committed or inserted by an open
\* connection, share a transaction_hash; and the step in which an insert is
\* rejected for its hash leaves the committed rows as they were and discards
\* what the seeding loop had inserted.
C7_UniqueHashRejected ==
    /\ [](\A t \in Threads : \A r1, r2 \in View(t) :
             r1.transaction_hash = r2.transaction_hash => r1 = r2)
    /\ [][ \A t \in Threads :
             (pc[t] = "i_insert" /\ exc'[t] = "IntegrityError" /\ pc'[t] # "i_insert") =>
                 (rows' = rows /\ txn'[t] = {} /\ hasTable' /\ file' = file) ]_vars

\* The seeding loop of w1 was rejected at its second insert: the hash of the
\* second sample is stored (by the other process), that of the first is not.
C7_Witness ==
    /\ exc["w1"] = "IntegrityError" /\ excAt["w1"] = "i_insert" /\ pc["w1"] = "idle"
    /\ \E r \in rows : r.transaction_hash = "sample_tx_2_bnb"
    /\ \A r \in rows : r.transaction_hash # "sample_tx_1_bnb"

\* C8: a thread that is outside the with blocks does not hold db_lock, and
\* every GET /api/stats request is answered with a 200 or a 500 document.
C8_LockReleasedAndAnswered ==
    /\ [](\A t \in Threads :
             pc[t] \in {"idle", "serving", "crashed", "s_lock", "i_lock", "s_render", "s_except"}
                 => db_lock # t)
    /\ \A t \in Workers :
          (pc[t] = "s_lock") ~>
              (StatsAnswered(t) /\ resp[t].status \in {200, 500})

\* w1 holds the lock for its request after a storage operation of w2 failed
\* inside the lock.
C8_Witness ==
    /\ pc["w1"] = "s_connect" /\ db_lock = "w1"
    /\ pc["w2"] = "idle" /\ exc["w2"] = "OperationalError"
    /\ excAt["w2"] \in {"s_sum", "i_insert"}

\* The records stored.
Records == IF file = "db" /\ hasTable THEN rows ELSE {}

\* C9: no step removes or changes a stored record, and the steps of the
\* three handlers leave the store as it is.
C9_RecordsNeverRemoved ==
    [][ /\ Records \subseteq Records'
        /\ (\E t \in Workers : pc[t] # pc'[t]) => UNCHANGED store ]_vars

\* C10: with the store absent, without table or empty at first and
\* init_database() called by the threads of the process, a stats answer is
\* the zeroed 500 document, or a 200 document of the empty table, or a 200
\* document of the 3 seeded records (count, sum and list alike); a 200
\* document is given only once the table exists.
C10_StatsSeeZeroOrThree ==
    \A t \in Workers :
        StatsAnswered(t) =>
            \/ resp[t].status = 500 /\ resp[t].body = ZeroBody
            \/ resp[t].status = 200 /\ hasTable /\ resp[t].body = ZeroBody
            \/ /\ resp[t].status = 200 /\ hasTable
               /\ resp[t].body.total_donations = 3
               /\ resp[t].body.total_amount_bnb = 1700
               /\ [i \in DOMAIN resp[t].body.recent_donations |->
                       resp[t].body.recent_donations[i].amount]
                    = <<"0.0500 BNB", "0.0200 BNB", "0.1000 BNB">>

\* w1 was answered with the 3 seeded records while w2 is inside a call of
\* init_database.
C10_Witness ==
    /\ StatsAnswered("w1") /\ resp["w1"].status = 200
    /\ resp["w1"].body.total_donations = 3
    /\ pc["w2"] \in {"i_lock", "i_connect", "i_create", "i_count"}

====
